---- MODULE Spec2Model ----
(***************************************************************************)
(* A model of mymcp.py: the GraphQLClient session wrapper (lazy login,     *)
(* one-hour local expiry), the _check_state_machine polling watcher, the   *)
(* MCP tools built on both, and the list_tenants quota join.               *)
(*                                                                         *)
(* One step of a task is what the coroutine runs between two suspension    *)
(* points (await of a network call, of a ctx notification, of a sleep).    *)
(* The remote server and the wall clock are the environment: every        *)
(* response and every clock advance is a nondeterministic choice.          *)
(***************************************************************************)
EXTENDS Integers, Sequences, FiniteSets, TLC

\* ------------------------------------------------------------------ bounds
\* How many times the wall clock advances in a run.
MaxTicks == 4
\* Where the poll / notification counters of a watch saturate.
MaxCount == 3
\* Lengths of the quota listing and of its sub-record lists (quota join).
MaxEntries == 1
MaxSub == 1
\* How many times the wall clock advances while two tasks are interleaved.
MaxConcTicks == 1

\* ------------------------------------------------------- program constants
\* mymcp.py:71   self._session_expires_at = time.time() + 3600
SessionValidity == 3600
\* mymcp.py:79   timeout=30.0
RequestTimeout == 30

\* ------------------------------------------------------------ configuration
\* The environment variables from_env reads, and a variable that is not set.
Unset == "<unset>"
RequiredNames == <<"USERNAME", "PASSWORD", "URL">>
\* Environments: every required variable is unset, empty or set; TLSVERIFY
\* is unset or carries one of several spellings.
TlsVerifyValues == {"true", "TRUE", "True", "1", "false", "0", "yes", ""}
Environs ==
    [USERNAME : {Unset, "", "admin"}, PASSWORD : {Unset, "", "secret"},
     URL : {Unset, "", "https://exa"}, TLSVERIFY : {Unset} \cup TlsVerifyValues]
DefaultEnviron ==
    [USERNAME |-> "admin", PASSWORD |-> "secret", URL |-> "https://exa",
     TLSVERIFY |-> Unset]

\* Python's None for the module's config / the client's config.
NoConfig == [none |-> TRUE]

\* str.lower() on the TLSVERIFY spellings.
Lower(s) == IF s \in {"TRUE", "True"} THEN "true" ELSE s

\* Mutant: URL is read with a default, as TLSVERIFY is.
FirstMissingSkipsUrl(env) ==
    IF \E n \in 1..2 : env[RequiredNames[n]] = Unset
    THEN RequiredNames[CHOOSE n \in 1..2 :
            /\ env[RequiredNames[n]] = Unset
            /\ \A m \in 1..(n - 1) : env[RequiredNames[m]] # Unset]
    ELSE "<None>"

\* Lines 26-28: os.environ[...] is evaluated for USERNAME, PASSWORD, URL in
\* this order; the first variable that is not set raises KeyError(name).
FirstMissing(env) ==
    IF \E n \in DOMAIN RequiredNames : env[RequiredNames[n]] = Unset
    THEN RequiredNames[CHOOSE n \in DOMAIN RequiredNames :
            /\ env[RequiredNames[n]] = Unset
            /\ \A m \in 1..(n - 1) : env[RequiredNames[m]] # Unset]
    ELSE "<None>"

\* Line 29: os.getenv("TLSVERIFY", "true").lower() in ("true", "1")
VerifyTls(env) ==
    Lower(IF env.TLSVERIFY = Unset THEN "true" ELSE env.TLSVERIFY)
        \in {"true", "1"}

\* Lines 31-32: the EnvironmentError raised from the KeyError; key is the
\* KeyError's argument, which the message ends with.
FromEnvError(env) ==
    IF FirstMissing(env) = "<None>"
    THEN [type |-> "<None>", msg |-> "", key |-> "<None>"]
    ELSE [type |-> "EnvironmentError",
          msg |-> "A required environment variable is missing",
          key |-> FirstMissing(env)]

\* Lines 25-30: the AppConfig from_env returns.
FromEnv(env) ==
    [username |-> env.USERNAME, password |-> env.PASSWORD, url |-> env.URL,
     verify_tls |-> VerifyTls(env)]

\* --------------------------------------------------------------- the tasks
Tasks == {"t1", "t2"}

\* Python's None for the cookie, and for the transport.
NoCookie == "<None>"
NoTransport == [url |-> "<None>", cookie |-> NoCookie, timeout |-> 0]
NoRequest == [doc |-> "<None>", id |-> 0]
NoResult == [none |-> TRUE]
NoError == [type |-> "<None>", msg |-> ""]

\* What the /session endpoint may put in the "sessionid" cookie: nothing,
\* an empty value, or a token.
Tokens == {"tokA", "tokB"}
CookieValues == {NoCookie, ""} \cup Tokens

\* The clock advances by one second or by one second less than the validity
\* window, so that T + 3599, T + 3600 and T + 3601 are all reached.
TickSteps == {1, SessionValidity - 1}
\* time.time() when the process starts: some instant after the epoch.
StartTimes == {1}

\* Job ids the server hands out, and the command name it reports for each.
JobIds == {101, 102}
JobName(id) == IF id = 101 THEN "cmd-101" ELSE "cmd-102"
\* Values of a command's "state" the server may report.
JobStates == {"running", "Completed", "cancelled",
              "failed", "canceled", "skipped", "completed"}

\* ---------------------------------------------------------------- the tools
SimpleTools == {"list_users", "delete_user", "get_errors"}
WatchedTools == {"destroy_tenant", "add_nids_to_tenant",
                 "remove_nids_from_tenant", "create_tenant"}
MutatingTools == WatchedTools \cup {"modify_tenant_quota"}
ToolNames == SimpleTools \cup {"list_tenants"} \cup MutatingTools

\* The document each tool hands to gql_client.execute.
ToolDocument(tl) ==
    CASE tl = "list_users" -> "LIST_USERS_QUERY"
      [] tl = "delete_user" -> "DELETE_USER_MUTATION"
      [] tl = "get_errors" -> "GET_ERRORS_QUERY"
      [] tl = "list_tenants" -> "LIST_TENANTS_QUERY"
      [] tl = "modify_tenant_quota" -> "CHANGE_QUOTA_MUTATION"
      [] tl = "destroy_tenant" -> "DESTROY_TENANT_MUTATION"
      [] tl = "add_nids_to_tenant" -> "ADD_NIDS_MUTATION"
      [] tl = "remove_nids_from_tenant" -> "REMOVE_NIDS_MUTATION"
      [] tl = "create_tenant" -> "CREATE_TENANT_MUTATION"

\* The field under "tenant" that each mutation document selects.
DocumentField(doc) ==
    CASE doc = "CHANGE_QUOTA_MUTATION" -> "setQuota"
      [] doc = "DESTROY_TENANT_MUTATION" -> "destroy"
      [] doc = "ADD_NIDS_MUTATION" -> "addNids"
      [] doc = "REMOVE_NIDS_MUTATION" -> "removeNids"
      [] doc = "CREATE_TENANT_MUTATION" -> "create"

\* The field each tool reads the job id from: result["tenant"][...]["id"].
ResultField(tl) ==
    CASE tl = "modify_tenant_quota" -> "setQuota"
      [] tl = "destroy_tenant" -> "destroy"
      [] tl = "add_nids_to_tenant" -> "addNids"
      [] tl = "remove_nids_from_tenant" -> "removeNids"
      [] tl = "create_tenant" -> "create"

\* ----------------------------------------------------------- the quota join
\* idOffset / sub-record id values, and the tenant records of a listing
\* (LIST_TENANTS_QUERY also selects fileset and nids, which the join never
\* reads).
Ids == {1, 2}
TenantRecord(i) == [name |-> IF i = 1 THEN "alpha" ELSE "beta", idOffset |-> i]
\* hard / soft / granted of a kbyte sub-record and of an inode sub-record.
KbyteQuota == [hard |-> 1000, soft |-> 900, granted |-> 500]
InodeQuota == [hard |-> 80, soft |-> 40, granted |-> 20]

SeqsUpTo(S, n) == UNION {[1..k -> S] : k \in 0..n}
Injective(s) == \A a, b \in DOMAIN s : s[a] = s[b] => a = b

\* Tenant listings: any tenants in any order, each with its own idOffset.
TenantListings ==
    {[n \in DOMAIN s |-> TenantRecord(s[n])] :
        s \in {q \in SeqsUpTo(Ids, Cardinality(Ids)) : Injective(q)}}
KbyteSubs == SeqsUpTo({[id |-> i, quota |-> KbyteQuota] : i \in Ids}, MaxSub)
InodeSubs == SeqsUpTo({[id |-> i, quota |-> InodeQuota] : i \in Ids}, MaxSub)
QuotaEntries ==
    {[id |-> 0, quotas |-> [projids |-> [kbytes |-> k, inodes |-> n]]] :
        k \in KbyteSubs, n \in InodeSubs}
QuotaListings == SeqsUpTo(QuotaEntries, MaxEntries)

\* Quota(): the dataclass with its six defaults.
Quota ==
    [inodeHard |-> 0, inodeSoft |-> 0, kbyteHard |-> 0,
     kbyteSoft |-> 0, kbyteUsed |-> 0, inodeUsed |-> 0]

\* tenant_quotas = {tenant["idOffset"]: Quota() for tenant in ...}
NewTenantQuotas(tlist) ==
    [i \in {tlist[n].idOffset : n \in DOMAIN tlist} |-> Quota]

\* Mutant: the kbyte limits are written to every tenant of the mapping.
SetKbyteEveryTenant(tq, j) ==
    [i \in DOMAIN tq |-> [tq[i] EXCEPT !.kbyteHard = j.quota.hard,
                                        !.kbyteSoft = j.quota.soft,
                                        !.kbyteUsed = j.quota.granted]]

\* The body of "for j in ...kbytes": if j["id"] in tenant_quotas: ...
SetKbyte(tq, j) ==
    IF j.id \in DOMAIN tq
    THEN [tq EXCEPT ![j.id] = [@ EXCEPT !.kbyteHard = j.quota.hard,
                                         !.kbyteSoft = j.quota.soft,
                                         !.kbyteUsed = j.quota.granted]]
    ELSE tq

\* Mutant: the inode loop is a copy of the kbyte loop, fields included.
SetInodeIntoKbyte(tq, k) ==
    IF k.id \in DOMAIN tq
    THEN [tq EXCEPT ![k.id] = [@ EXCEPT !.kbyteHard = k.quota.hard,
                                         !.kbyteSoft = k.quota.soft,
                                         !.kbyteUsed = k.quota.granted]]
    ELSE tq

\* The body of "for k in ...inodes": if k["id"] in tenant_quotas: ...
SetInode(tq, k) ==
    IF k.id \in DOMAIN tq
    THEN [tq EXCEPT ![k.id] = [@ EXCEPT !.inodeHard = k.quota.hard,
                                         !.inodeSoft = k.quota.soft,
                                         !.inodeUsed = k.quota.granted]]
    ELSE tq

RECURSIVE ApplyKbytes(_, _)
ApplyKbytes(tq, subs) ==
    IF subs = <<>> THEN tq
    ELSE ApplyKbytes(SetKbyte(tq, Head(subs)), Tail(subs))

RECURSIVE ApplyInodes(_, _)
ApplyInodes(tq, subs) ==
    IF subs = <<>> THEN tq
    ELSE ApplyInodes(SetInode(tq, Head(subs)), Tail(subs))

\* "for i in quota["quota"]["list"]": the kbytes loop, then the inodes loop.
RECURSIVE ApplyQuotaList(_, _)
ApplyQuotaList(tq, qlist) ==
    IF qlist = <<>> THEN tq
    ELSE ApplyQuotaList(
             ApplyInodes(ApplyKbytes(tq, Head(qlist).quotas.projids.kbytes),
                         Head(qlist).quotas.projids.inodes),
             Tail(qlist))

\* "for tenant in tenants[...]: tenant["quota"] = tenant_quotas[...]".
AttachQuota(tlist, tq) ==
    [n \in DOMAIN tlist |->
        [name |-> tlist[n].name, idOffset |-> tlist[n].idOffset,
         quota |-> tq[tlist[n].idOffset]]]

\* What list_tenants returns, from the two responses it received.
JoinTenants(tenantsResp, quotaResp) ==
    [tenant |-> [list |->
        AttachQuota(tenantsResp.tenant.list,
                    ApplyQuotaList(NewTenantQuotas(tenantsResp.tenant.list),
                                   quotaResp.quota.list))]]

\* --------------------------------------------------------------- the server
\* The decoded response to an operation request: it mirrors the selection
\* set of the document.  jid is the id a mutation's command gets, st the
\* state the server reports for a polled command.
ServerData(rq, jid, st, tl, ql) ==
    CASE rq.doc = "CHECK_STATEMACHINE" ->
            [stateMachine |-> [getCmdSummary |->
                [name |-> JobName(rq.id), state |-> st,
                 failureReason |-> IF st = "failed" THEN "error" ELSE ""]]]
      [] rq.doc = "LIST_TENANTS_QUERY" -> [tenant |-> [list |-> tl]]
      [] rq.doc = "LIST_QUOTA_QUERY" -> [quota |-> [list |-> ql]]
      [] rq.doc \in {"LIST_USERS_QUERY", "DELETE_USER_MUTATION",
                     "GET_ERRORS_QUERY"} -> [data |-> rq.doc]
      [] OTHER ->
            [tenant |-> [f \in {DocumentField(rq.doc)} |-> [id |-> jid]]]

\* Exceptions gql's execute_async raises: a GraphQL-level error, or a
\* transport / HTTP failure.
OpErrors == {"TransportQueryError", "TransportError"}

VARIABLES
    environ,                   \* os.environ when the module is loaded
    config,                    \* the module's config (line 260)
    self_config,               \* GraphQLClient.config (line 49)
    startup_error,             \* the exception that ended the module load
    now, ticks,                \* time.time(), and how often it has advanced
    session_cookie,            \* GraphQLClient._session_cookie
    session_expires_at,        \* GraphQLClient._session_expires_at
    transport,                 \* GraphQLClient._transport
    lastLoginAt,               \* history: when the installed session was set
    execCalls,                 \* history: execute calls begun (0, 1, 2 = more)
    pc, tool, confirm, phase,  \* per task: position, tool, argument, call
    req,                       \* per task: the operation request in flight
    gql_client,                \* per task: execute's local Client (line 91)
    jobid,                     \* per task: the local "id" of a mutating tool
    tenants,                   \* per task: list_tenants' local "tenants"
    result,                    \* per task: the local "result" (last response)
    ret, error,                \* per task: the tool's return value / exception
    polls, notes,              \* history: polls made, notifications emitted
    callLogins,                \* history: logins of the current execute call
    remoteUsed,                \* history: the invocation sent a remote request
    checkedAt,                 \* history: time.time() at line 87 of the
                               \* execute call in progress (-1: none)
    srvTenants, srvQuota       \* the server's tenant and quota listings

configVars == <<environ, config, self_config, startup_error>>
clockVars == <<now, ticks>>
sessionVars == <<session_cookie, session_expires_at, transport>>
histVars == <<lastLoginAt, execCalls>>
taskVars == <<pc, tool, confirm, phase, req, gql_client, jobid, tenants,
              result, ret, error, polls, notes, callLogins, remoteUsed,
              checkedAt>>
serverVars == <<srvTenants, srvQuota>>
vars == <<configVars, clockVars, sessionVars, histVars, taskVars, serverVars>>

\* ------------------------------------------------------------------- Init
\* The listings of the quota-join scenario: tenants 1 and 2, one kbyte
\* sub-record for id 1 and no inode sub-record.
ScenarioTenants == <<TenantRecord(1), TenantRecord(2)>>
ScenarioQuota ==
    <<[id |-> 0, quotas |-> [projids |->
        [kbytes |-> <<[id |-> 1, quota |-> KbyteQuota]>>, inodes |-> <<>>]]]>>

\* The module has been loaded in an environment that sets the three
\* required variables: config and gql_client exist (lines 260-261).
InitConfig ==
    /\ environ = DefaultEnviron
    /\ config = FromEnv(DefaultEnviron)
    /\ self_config = FromEnv(DefaultEnviron)
    /\ startup_error = FromEnvError(DefaultEnviron)

\* GraphQLClient.__init__, and no tool invoked yet.
InitClient ==
    /\ now \in StartTimes
    /\ ticks = 0
    /\ session_cookie = NoCookie
    /\ session_expires_at = 0
    /\ transport = NoTransport
    /\ lastLoginAt = -1
    /\ execCalls = 0
    /\ pc = [t \in Tasks |-> "idle"]
    /\ tool = [t \in Tasks |-> "<None>"]
    /\ confirm = [t \in Tasks |-> FALSE]
    /\ phase = [t \in Tasks |-> "<None>"]
    /\ req = [t \in Tasks |-> NoRequest]
    /\ gql_client = [t \in Tasks |-> NoTransport]
    /\ jobid = [t \in Tasks |-> 0]
    /\ tenants = [t \in Tasks |-> NoResult]
    /\ result = [t \in Tasks |-> NoResult]
    /\ ret = [t \in Tasks |-> NoResult]
    /\ error = [t \in Tasks |-> NoError]
    /\ polls = [t \in Tasks |-> 0]
    /\ notes = [t \in Tasks |-> 0]
    /\ callLogins = [t \in Tasks |-> 0]
    /\ remoteUsed = [t \in Tasks |-> FALSE]
    /\ checkedAt = [t \in Tasks |-> -1]

Init ==
    /\ InitConfig
    /\ InitClient
    /\ srvTenants = ScenarioTenants
    /\ srvQuota = ScenarioQuota

\* ---------------------------------------------------------------- helpers
\* The counters are exact up to MaxCount; MaxCount + 1 stands for "more".
Inc(n) == IF n <= MaxCount THEN n + 1 ELSE n

\* An exception leaves the tool: the invocation ends with it.
Raise(t, e) ==
    /\ pc' = [pc EXCEPT ![t] = "done"]
    /\ error' = [error EXCEPT ![t] = e]

\* The tool returns v.
Return(t, v) ==
    /\ pc' = [pc EXCEPT ![t] = "done"]
    /\ ret' = [ret EXCEPT ![t] = v]

\* ------------------------------------------------------------ module load
\* Lines 260-261: config = AppConfig.from_env(); gql_client =
\* GraphQLClient(config).  An exception of from_env ends the load: neither
\* name is bound.
LoadModule ==
    /\ config = NoConfig
    /\ startup_error.type = "<None>"
    /\ IF FromEnvError(environ).type = "<None>"
       THEN /\ config' = FromEnv(environ)
            /\ self_config' = FromEnv(environ)
            /\ UNCHANGED startup_error
       ELSE /\ startup_error' = FromEnvError(environ)
            /\ UNCHANGED <<config, self_config>>
    /\ UNCHANGED <<environ, clockVars, sessionVars, histVars, taskVars,
                   serverVars>>

\* ------------------------------------------------------------ GraphQLClient
\* Mutant: only an installed session is ever refreshed.
NeedsLoginRefreshOnly == transport # NoTransport /\ now >= session_expires_at

\* Mutant: the session is still used at the instant it expires.
NeedsLoginStrict == now > session_expires_at \/ transport = NoTransport

\* Mutant: the expiry is never looked at once a transport exists.
NeedsLoginTransportOnly == transport = NoTransport

\* Line 87: time.time() >= self._session_expires_at or self._transport is None
NeedsLogin == now >= session_expires_at \/ transport = NoTransport

\* Mutant: the header is built from the cookie of the session being replaced.
NewTransportStaleCookie(cookie) ==
    [url |-> "/graphql", cookie |-> session_cookie, timeout |-> RequestTimeout]

\* Lines 75-80: the transport bound to the cookie.
NewTransport(cookie) ==
    [url |-> "/graphql", cookie |-> cookie, timeout |-> RequestTimeout]

\* Mutant: the "if not cookie" test is missing.
LoginErrorNoCookieTest(outcome, cookie) ==
    CASE outcome = "connect" ->
            [type |-> "ConnectionError",
             msg |-> "Could not connect to the authentication endpoint"]
      [] outcome = "http" ->
            [type |-> "HTTPStatusError", msg |-> "raise_for_status"]
      [] OTHER -> NoError

\* Lines 59-68 and 82-83: the exception _login raises for a response, or
\* NoError.  outcome is "connect" (httpx.RequestError), "http" (a status
\* raise_for_status rejects) or "ok" (a success status carrying cookie).
LoginError(outcome, cookie) ==
    CASE outcome = "connect" ->
            [type |-> "ConnectionError",
             msg |-> "Could not connect to the authentication endpoint"]
      [] outcome = "http" ->
            [type |-> "HTTPStatusError", msg |-> "raise_for_status"]
      [] outcome = "ok" /\ cookie \in {NoCookie, ""} ->
            [type |-> "ConnectionError",
             msg |-> "Login failed: 'sessionid' cookie not found in response."]
      [] OTHER -> NoError

\* Mutant: the status query is sent without the watched id.
RequestPollsWithoutId(t) ==
    CASE phase[t] = "poll" -> [doc |-> "CHECK_STATEMACHINE", id |-> 0]
      [] phase[t] = "quota" -> [doc |-> "LIST_QUOTA_QUERY", id |-> 0]
      [] OTHER -> [doc |-> ToolDocument(tool[t]), id |-> 0]

\* The request an execute call sends: the tool's document, or the status
\* query with the watched id.
Request(t) ==
    CASE phase[t] = "poll" -> [doc |-> "CHECK_STATEMACHINE", id |-> jobid[t]]
      [] phase[t] = "quota" -> [doc |-> "LIST_QUOTA_QUERY", id |-> 0]
      [] OTHER -> [doc |-> ToolDocument(tool[t]), id |-> 0]

\* Lines 91-93: Client(transport=self._transport), and the request is sent.
SendOperation(t) ==
    /\ gql_client' = [gql_client EXCEPT ![t] = transport]
    /\ req' = [req EXCEPT ![t] = Request(t)]
    /\ pc' = [pc EXCEPT ![t] = "op_wait"]

\* execute, lines 87-93, up to its first suspension: the expiry check, then
\* either the login request or the operation request is sent.
ExecCheck(t) ==
    /\ pc[t] = "check"
    /\ remoteUsed' = [remoteUsed EXCEPT ![t] = TRUE]
    /\ checkedAt' = [checkedAt EXCEPT ![t] = now]
    /\ execCalls' = IF execCalls < 2 THEN execCalls + 1 ELSE execCalls
    /\ IF NeedsLogin
       THEN /\ pc' = [pc EXCEPT ![t] = "login_wait"]
            /\ callLogins' = [callLogins EXCEPT ![t] = 1]
            \* the call's local gql_client is not bound yet
            /\ gql_client' = [gql_client EXCEPT ![t] = NoTransport]
            /\ UNCHANGED req
       ELSE /\ SendOperation(t)
            /\ callLogins' = [callLogins EXCEPT ![t] = 0]
    /\ UNCHANGED <<configVars, clockVars, sessionVars, lastLoginAt,
                   serverVars, tool, confirm, phase, jobid, tenants, result,
                   ret, error, polls, notes>>

\* Mutant: single flight by the first writer: a login that completes while
\* a valid session is installed leaves that session in place.
LoginRespFirstWins(t, outcome, cookie) ==
    /\ pc[t] = "login_wait"
    /\ IF LoginError(outcome, cookie) = NoError
       THEN /\ IF transport # NoTransport /\ now < session_expires_at
               THEN UNCHANGED <<sessionVars, lastLoginAt>>
               ELSE /\ session_cookie' = cookie
                    /\ session_expires_at' = now + SessionValidity
                    /\ transport' = NewTransport(cookie)
                    /\ lastLoginAt' = now
            /\ pc' = [pc EXCEPT ![t] = "login_exit"]
            /\ UNCHANGED error
       ELSE /\ Raise(t, LoginError(outcome, cookie))
            /\ UNCHANGED <<sessionVars, lastLoginAt>>
    /\ checkedAt' = [checkedAt EXCEPT ![t] =
                        IF LoginError(outcome, cookie) = NoError
                        THEN @ ELSE -1]
    /\ UNCHANGED <<configVars, clockVars, execCalls, serverVars, tool,
                   confirm, phase, req, gql_client, jobid, tenants, result,
                   ret, polls, notes, callLogins, remoteUsed>>

\* Mutant: a failed login drops the session that was installed.
LoginRespInvalidates(t, outcome, cookie) ==
    /\ pc[t] = "login_wait"
    /\ IF LoginError(outcome, cookie) = NoError
       THEN /\ session_cookie' = cookie
            /\ session_expires_at' = now + SessionValidity
            /\ transport' = NewTransport(cookie)
            /\ lastLoginAt' = now
            /\ pc' = [pc EXCEPT ![t] = "login_exit"]
            /\ UNCHANGED error
       ELSE /\ Raise(t, LoginError(outcome, cookie))
            /\ session_cookie' = NoCookie
            /\ session_expires_at' = 0
            /\ transport' = NoTransport
            /\ lastLoginAt' = -1
    /\ checkedAt' = [checkedAt EXCEPT ![t] =
                        IF LoginError(outcome, cookie) = NoError
                        THEN @ ELSE -1]
    /\ UNCHANGED <<configVars, clockVars, execCalls, serverVars, tool,
                   confirm, phase, req, gql_client, jobid, tenants, result,
                   ret, polls, notes, callLogins, remoteUsed>>

\* _login, lines 60-83, from the response of POST /session on.
LoginResp(t, outcome, cookie) ==
    /\ pc[t] = "login_wait"
    /\ IF LoginError(outcome, cookie) = NoError
       THEN /\ session_cookie' = cookie
            /\ session_expires_at' = now + SessionValidity
            /\ transport' = NewTransport(cookie)
            /\ lastLoginAt' = now
            /\ pc' = [pc EXCEPT ![t] = "login_exit"]
            /\ UNCHANGED error
       ELSE /\ Raise(t, LoginError(outcome, cookie))
            /\ UNCHANGED <<sessionVars, lastLoginAt>>
    /\ checkedAt' = [checkedAt EXCEPT ![t] =
                        IF LoginError(outcome, cookie) = NoError
                        THEN @ ELSE -1]
    /\ UNCHANGED <<configVars, clockVars, execCalls, serverVars, tool,
                   confirm, phase, req, gql_client, jobid, tenants, result,
                   ret, polls, notes, callLogins, remoteUsed>>

\* execute, lines 91-93, after _login returned (the login client is closed).
ExecSend(t) ==
    /\ pc[t] = "login_exit"
    /\ SendOperation(t)
    /\ UNCHANGED <<configVars, clockVars, sessionVars, histVars, serverVars,
                   tool, confirm, phase, jobid, tenants, result, ret, error,
                   polls, notes, callLogins, remoteUsed, checkedAt>>

\* Mutant: execute answers an operation error with a fresh login and a
\* resend.
OpFailRelogin(t, e) ==
    /\ pc[t] = "op_wait"
    /\ req' = [req EXCEPT ![t] = NoRequest]
    /\ pc' = [pc EXCEPT ![t] = "login_wait"]
    /\ UNCHANGED <<configVars, clockVars, sessionVars, histVars, serverVars,
                   tool, confirm, phase, gql_client, jobid, tenants, result,
                   ret, error, polls, notes, callLogins, remoteUsed,
                   checkedAt>>

\* Mutant: the watcher's loop catches the exception of a poll and goes on
\* to the sleep and the next poll.
OpFailRetriedByWatcher(t, e) ==
    /\ pc[t] = "op_wait"
    /\ req' = [req EXCEPT ![t] = NoRequest]
    /\ checkedAt' = [checkedAt EXCEPT ![t] = -1]
    /\ IF phase[t] = "poll"
       THEN /\ pc' = [pc EXCEPT ![t] = "sleep"]
            /\ UNCHANGED error
       ELSE Raise(t, [type |-> e, msg |-> ""])
    /\ UNCHANGED <<configVars, clockVars, sessionVars, histVars, serverVars,
                   tool, confirm, phase, gql_client, jobid, tenants, result,
                   ret, polls, notes, callLogins, remoteUsed>>

\* execute_async raises: the exception leaves execute and the tool.
OpFail(t, e) ==
    /\ pc[t] = "op_wait"
    /\ req' = [req EXCEPT ![t] = NoRequest]
    /\ checkedAt' = [checkedAt EXCEPT ![t] = -1]
    /\ Raise(t, [type |-> e, msg |-> ""])
    /\ UNCHANGED <<configVars, clockVars, sessionVars, histVars, serverVars,
                   tool, confirm, phase, gql_client, jobid, tenants, result,
                   ret, polls, notes, callLogins, remoteUsed>>

\* ----------------------------------------------------------------- watcher
\* Mutant: the state is compared without regard to case.
IsTerminalStateAnyCase(st) ==
    st \in {"failed", "canceled", "skipped", "completed", "Completed"}

\* Line 307: summary["state"] in ["failed", "canceled", "skipped", "completed"]
IsTerminalState(st) == st \in {"failed", "canceled", "skipped", "completed"}

\* The name each mutating tool calls for the watch (lines 328, 342, 355,
\* 369, 393), and the functions the module defines.
WatcherCalled(tl) ==
    IF tl = "modify_tenant_quota"
    THEN "_check_state_machinecheck_state_machine"
    ELSE "_check_state_machine"
ModuleFunctions == {"_check_state_machine"}

\* Mutant: the loop sleeps without a notification.
EmitNoProgress(t) == notes' = notes

\* Line 309: await ctx.info(f'{summary["name"]} is still ongoing.')
EmitProgress(t) == notes' = [notes EXCEPT ![t] = Inc(notes[t])]

\* --------------------------------------------------------------- the tools
\* Mutant: destroy_tenant never takes the "not confirmed" branch.
NotConfirmedNever(t) == FALSE

\* Line 334: "if not confirm" of destroy_tenant.
NotConfirmed(t) == tool[t] = "destroy_tenant" /\ ~confirm[t]

\* Mutant: a tool is invoked only while no other invocation is under way.
StartSerialized(t, tl, cf) ==
    /\ self_config # NoConfig
    /\ \A u \in Tasks : pc[u] \in {"idle", "done"}
    /\ tool' = [tool EXCEPT ![t] = tl]
    /\ confirm' = [confirm EXCEPT ![t] = cf]
    /\ pc' = [pc EXCEPT ![t] = IF tl \in WatchedTools THEN "pre_info"
                                                      ELSE "check"]
    /\ phase' = [phase EXCEPT ![t] =
                    CASE tl \in SimpleTools -> "simple"
                      [] tl = "list_tenants" -> "tenants"
                      [] tl = "modify_tenant_quota" -> "mutation"
                      [] OTHER -> "<None>"]
    /\ req' = [req EXCEPT ![t] = NoRequest]
    /\ gql_client' = [gql_client EXCEPT ![t] = NoTransport]
    /\ jobid' = [jobid EXCEPT ![t] = 0]
    /\ tenants' = [tenants EXCEPT ![t] = NoResult]
    /\ result' = [result EXCEPT ![t] = NoResult]
    /\ ret' = [ret EXCEPT ![t] = NoResult]
    /\ error' = [error EXCEPT ![t] = NoError]
    /\ polls' = [polls EXCEPT ![t] = 0]
    /\ notes' = [notes EXCEPT ![t] = 0]
    /\ callLogins' = [callLogins EXCEPT ![t] = 0]
    /\ remoteUsed' = [remoteUsed EXCEPT ![t] = FALSE]
    /\ checkedAt' = [checkedAt EXCEPT ![t] = -1]
    /\ UNCHANGED <<configVars, clockVars, sessionVars, histVars, serverVars>>

\* A tool is invoked (the module has been loaded, and a previous invocation
\* of the task has ended).
Start(t, tl, cf) ==
    /\ self_config # NoConfig
    /\ pc[t] \in {"idle", "done"}
    /\ tool' = [tool EXCEPT ![t] = tl]
    /\ confirm' = [confirm EXCEPT ![t] = cf]
    /\ pc' = [pc EXCEPT ![t] = IF tl \in WatchedTools THEN "pre_info"
                                                      ELSE "check"]
    /\ phase' = [phase EXCEPT ![t] =
                    CASE tl \in SimpleTools -> "simple"
                      [] tl = "list_tenants" -> "tenants"
                      [] tl = "modify_tenant_quota" -> "mutation"
                      [] OTHER -> "<None>"]
    /\ req' = [req EXCEPT ![t] = NoRequest]
    /\ gql_client' = [gql_client EXCEPT ![t] = NoTransport]
    /\ jobid' = [jobid EXCEPT ![t] = 0]
    /\ tenants' = [tenants EXCEPT ![t] = NoResult]
    /\ result' = [result EXCEPT ![t] = NoResult]
    /\ ret' = [ret EXCEPT ![t] = NoResult]
    /\ error' = [error EXCEPT ![t] = NoError]
    /\ polls' = [polls EXCEPT ![t] = 0]
    /\ notes' = [notes EXCEPT ![t] = 0]
    /\ callLogins' = [callLogins EXCEPT ![t] = 0]
    /\ remoteUsed' = [remoteUsed EXCEPT ![t] = FALSE]
    /\ checkedAt' = [checkedAt EXCEPT ![t] = -1]
    /\ UNCHANGED <<configVars, clockVars, sessionVars, histVars, serverVars>>

\* The first ctx.warning / ctx.info of destroy_tenant (333),
\* add_nids_to_tenant (351), remove_nids_from_tenant (365) and
\* create_tenant (389) has been delivered.
PreInfoDone(t) ==
    /\ pc[t] = "pre_info"
    /\ IF NotConfirmed(t)
       THEN /\ pc' = [pc EXCEPT ![t] = "cancel_info"]
            /\ UNCHANGED phase
       ELSE /\ pc' = [pc EXCEPT ![t] = "check"]
            /\ phase' = [phase EXCEPT ![t] = "mutation"]
    /\ UNCHANGED <<configVars, clockVars, sessionVars, histVars, serverVars,
                   tool, confirm, req, gql_client, jobid, tenants, result,
                   ret, error, polls, notes, callLogins, remoteUsed,
                   checkedAt>>

\* destroy_tenant, lines 335-336: the cancellation notice, then the return.
CancelInfoDone(t) ==
    /\ pc[t] = "cancel_info"
    /\ Return(t, [status |-> "cancelled",
                  message |-> "Deletion not confirmed. Set 'confirm=True' to proceed."])
    /\ UNCHANGED <<configVars, clockVars, sessionVars, histVars, serverVars,
                   tool, confirm, phase, req, gql_client, jobid, tenants,
                   result, error, polls, notes, callLogins, remoteUsed,
                   checkedAt>>

\* execute_async returns data: the caller of execute goes on with it.
OpOk(t, jid, st) ==
    LET data == ServerData(req[t], jid, st, srvTenants, srvQuota) IN
    /\ pc[t] = "op_wait"
    /\ req' = [req EXCEPT ![t] = NoRequest]
    /\ checkedAt' = [checkedAt EXCEPT ![t] = -1]
    /\ CASE phase[t] = "simple" ->
              \* list_users / delete_user / get_errors: return the response
              /\ Return(t, data)
              /\ UNCHANGED <<phase, jobid, tenants, result, notes>>
         [] phase[t] = "tenants" ->
              \* list_tenants line 283, then the execute of line 285
              /\ tenants' = [tenants EXCEPT ![t] = data]
              /\ phase' = [phase EXCEPT ![t] = "quota"]
              /\ pc' = [pc EXCEPT ![t] = "check"]
              /\ UNCHANGED <<jobid, result, ret, notes>>
         [] phase[t] = "quota" ->
              \* list_tenants lines 286-300
              /\ tenants' = [tenants EXCEPT ![t] = JoinTenants(tenants[t], data)]
              /\ Return(t, JoinTenants(tenants[t], data))
              /\ UNCHANGED <<phase, jobid, result, notes>>
         [] phase[t] = "mutation" ->
              \* id = result["tenant"][...]["id"], then ctx.info
              /\ result' = [result EXCEPT ![t] = data]
              /\ jobid' = [jobid EXCEPT ![t] =
                              data.tenant[ResultField(tool[t])].id]
              /\ pc' = [pc EXCEPT ![t] = "started_info"]
              /\ UNCHANGED <<phase, tenants, ret, notes>>
         [] phase[t] = "poll" ->
              \* _check_state_machine lines 306-309
              /\ result' = [result EXCEPT ![t] = data]
              /\ IF IsTerminalState(data.stateMachine.getCmdSummary.state)
                 THEN /\ Return(t, data)
                      /\ UNCHANGED notes
                 ELSE /\ pc' = [pc EXCEPT ![t] = "notify"]
                      /\ EmitProgress(t)
                      /\ UNCHANGED ret
              /\ UNCHANGED <<phase, jobid, tenants>>
    /\ UNCHANGED <<configVars, clockVars, sessionVars, histVars, serverVars,
                   tool, confirm, gql_client, error, polls, callLogins,
                   remoteUsed>>

\* The "... started" ctx.info of a mutating tool has been delivered: the
\* tool calls the watcher (line 305 is the watcher's first poll).
StartedInfoDone(t) ==
    /\ pc[t] = "started_info"
    /\ IF WatcherCalled(tool[t]) \in ModuleFunctions
       THEN /\ phase' = [phase EXCEPT ![t] = "poll"]
            /\ pc' = [pc EXCEPT ![t] = "check"]
            /\ polls' = [polls EXCEPT ![t] = Inc(polls[t])]
            /\ UNCHANGED error
       ELSE /\ Raise(t, [type |-> "NameError", msg |-> WatcherCalled(tool[t])])
            /\ UNCHANGED <<phase, polls>>
    /\ UNCHANGED <<configVars, clockVars, sessionVars, histVars, serverVars,
                   tool, confirm, req, gql_client, jobid, tenants, result,
                   ret, notes, callLogins, remoteUsed, checkedAt>>

\* Line 309: the progress notification has been delivered; line 310 sleeps.
NotifyDone(t) ==
    /\ pc[t] = "notify"
    /\ pc' = [pc EXCEPT ![t] = "sleep"]
    /\ UNCHANGED <<configVars, clockVars, sessionVars, histVars, serverVars,
                   tool, confirm, phase, req, gql_client, jobid, tenants,
                   result, ret, error, polls, notes, callLogins, remoteUsed,
                   checkedAt>>

\* Mutant: the loop gives up once it has polled more than MaxCount times.
SleepDoneGivesUp(t) ==
    /\ pc[t] = "sleep"
    /\ IF polls[t] > MaxCount
       THEN /\ Raise(t, [type |-> "TimeoutError", msg |-> ""])
            /\ UNCHANGED polls
       ELSE /\ pc' = [pc EXCEPT ![t] = "check"]
            /\ polls' = [polls EXCEPT ![t] = Inc(polls[t])]
            /\ UNCHANGED error
    /\ UNCHANGED <<configVars, clockVars, sessionVars, histVars, serverVars,
                   tool, confirm, phase, req, gql_client, jobid, tenants,
                   result, ret, notes, callLogins, remoteUsed, checkedAt>>

\* Line 310: asyncio.sleep(3) is over; the loop polls again (line 305).
SleepDone(t) ==
    /\ pc[t] = "sleep"
    /\ pc' = [pc EXCEPT ![t] = "check"]
    /\ polls' = [polls EXCEPT ![t] = Inc(polls[t])]
    /\ UNCHANGED <<configVars, clockVars, sessionVars, histVars, serverVars,
                   tool, confirm, phase, req, gql_client, jobid, tenants,
                   result, ret, error, notes, callLogins, remoteUsed,
                   checkedAt>>

\* ---------------------------------------------------------------- the clock
Tick(d) ==
    /\ ticks < MaxTicks
    /\ ticks' = ticks + 1
    /\ now' = now + d
    /\ UNCHANGED <<configVars, sessionVars, histVars, taskVars, serverVars>>

\* ------------------------------------------------------------ specifications
\* A suspended coroutine is resumed: the call it awaits has completed, with
\* whatever the server or the transport produced.
Resume(t) ==
    \/ PreInfoDone(t)
    \/ CancelInfoDone(t)
    \/ ExecCheck(t)
    \/ \E outcome \in {"connect", "http"} : LoginResp(t, outcome, NoCookie)
    \/ \E cookie \in CookieValues : LoginResp(t, "ok", cookie)
    \/ ExecSend(t)
    \/ \E e \in OpErrors : OpFail(t, e)
    \/ \E jid \in JobIds, st \in JobStates : OpOk(t, jid, st)
    \/ StartedInfoDone(t)
    \/ NotifyDone(t)
    \/ SleepDone(t)

\* A task: invocations of the given tools, one after the other.
TaskStep(t, tools) ==
    \/ \E tl \in tools :
         \E cf \in (IF tl = "destroy_tenant" THEN BOOLEAN ELSE {FALSE}) :
            Start(t, tl, cf)
    \/ Resume(t)

\* Tool invocations one after the other, against a server that may answer
\* anything.
Next ==
    \/ TaskStep("t1", ToolNames)
    \/ \E d \in TickSteps : Tick(d)

Spec == Init /\ [][Next]_vars

\* The quota join over every pair of listings within the bounds: one
\* list_tenants invocation on a server that answers every request.
InitQuota ==
    /\ InitConfig
    /\ InitClient
    /\ srvTenants \in TenantListings
    /\ srvQuota \in QuotaListings

NextQuota ==
    \/ Start("t1", "list_tenants", FALSE)
    \/ ExecCheck("t1")
    \/ \E cookie \in Tokens : LoginResp("t1", "ok", cookie)
    \/ ExecSend("t1")
    \/ \E jid \in JobIds, st \in JobStates : OpOk("t1", jid, st)

SpecQuota == InitQuota /\ [][NextQuota]_vars

\* The watcher under the event loop's scheduling: a coroutine whose awaited
\* call has completed (a response, an error or the 30 s transport timeout;
\* a delivered notification; the end of the sleep) is resumed.  Invocations
\* of destroy_tenant only: the loop of _check_state_machine is the same for
\* every tool that reaches it.
LiveTools == {"destroy_tenant"}

NextLive ==
    \/ TaskStep("t1", LiveTools)
    \/ \E d \in TickSteps : Tick(d)

SpecLive == Init /\ [][NextLive]_vars /\ WF_vars(Resume("t1"))

\* The module load over every environment within the bounds, followed by a
\* first tool invocation where the load left a client.
InitStartup ==
    /\ environ \in Environs
    /\ config = NoConfig
    /\ self_config = NoConfig
    /\ startup_error = FromEnvError(DefaultEnviron)
    /\ InitClient
    /\ srvTenants = ScenarioTenants
    /\ srvQuota = ScenarioQuota

NextStartup ==
    \/ LoadModule
    \/ Start("t1", "list_users", FALSE)
    \/ ExecCheck("t1")

SpecStartup == InitStartup /\ [][NextStartup]_vars

\* Two tool invocations interleaved by the event loop: each task runs at its
\* own suspension points, in any order, on the one shared client.  The first
\* task invokes destroy_tenant (confirmed or not), the second list_users
\* or add_nids_to_tenant, so both may be watching a command; the server
\* answers a login with no cookie or a token,
\* reports the command 101 as running or completed, and the clock advances
\* at most MaxConcTicks times, by ConcTickSteps.
ConcTools(t) ==
    IF t = "t1" THEN {"destroy_tenant"}
    ELSE {"list_users", "add_nids_to_tenant"}
ConcCookies == {NoCookie} \cup Tokens
ConcStates == {"running", "completed"}

ConcResume(t) ==
    \/ PreInfoDone(t)
    \/ CancelInfoDone(t)
    \/ ExecCheck(t)
    \/ \E outcome \in {"connect", "http"} : LoginResp(t, outcome, NoCookie)
    \/ \E cookie \in ConcCookies : LoginResp(t, "ok", cookie)
    \/ ExecSend(t)
    \/ OpFail(t, "TransportQueryError")
    \/ \E st \in ConcStates : OpOk(t, 101, st)
    \/ StartedInfoDone(t)
    \/ NotifyDone(t)
    \/ SleepDone(t)

ConcStart(t) ==
    \E tl \in ConcTools(t) :
        \E cf \in (IF tl = "destroy_tenant" THEN BOOLEAN ELSE {FALSE}) :
            Start(t, tl, cf)

\* The clock advances to one second before the expiry of a session installed
\* at the start, or to its expiry.
ConcTickSteps == {SessionValidity - 1, SessionValidity}
ConcTick(d) == ticks < MaxConcTicks /\ Tick(d)

NextConc ==
    \/ \E t \in Tasks : ConcStart(t) \/ ConcResume(t)
    \/ \E d \in ConcTickSteps : ConcTick(d)

SpecConc == Init /\ [][NextConc]_vars

\* ------------------------------------------------------------------ claims
\* C1: on a freshly constructed GraphQLClient (no session, no transport) the
\* first execute call sends exactly one login request, and sends its
\* operation request only after that login has completed and installed the
\* session the request is sent with.
C1_FirstExecuteLogsInOnce ==
    \A t \in Tasks :
        (execCalls = 1 /\ remoteUsed[t]) =>
            /\ callLogins[t] = 1
            /\ pc[t] = "login_wait" =>
                  /\ lastLoginAt = -1
                  /\ transport = NoTransport
                  /\ req[t] = NoRequest
            /\ req[t] # NoRequest =>
                  /\ lastLoginAt >= 0
                  /\ session_cookie \in Tokens
                  /\ transport.cookie = session_cookie
                  /\ gql_client[t] = transport

\* C1 witness: the first execute call has logged in and its operation
\* request is in flight.
C1_Witness ==
    /\ execCalls = 1
    /\ pc["t1"] = "op_wait"
    /\ callLogins["t1"] = 1
    /\ gql_client["t1"].cookie \in Tokens

\* C2: with a session installed by a login that completed at T =
\* lastLoginAt, an execute call whose expiry check happens before T + 3600
\* sends no login request (its operation goes out at once, the session is
\* left alone), one whose check happens at or after T + 3600 sends exactly
\* one; and a login request is only ever sent by the expiry check of a call.
C2_LoginOnlyAfterWindow ==
    [][\A t \in Tasks :
          /\ (pc[t] = "check" /\ pc'[t] # "check" /\ lastLoginAt >= 0) =>
                IF now < lastLoginAt + 3600
                THEN /\ pc'[t] = "op_wait"
                     /\ callLogins'[t] = 0
                     /\ UNCHANGED <<sessionVars, lastLoginAt>>
                ELSE /\ pc'[t] = "login_wait"
                     /\ callLogins'[t] = 1
          /\ (pc'[t] = "login_wait" /\ pc[t] # "login_wait") => pc[t] = "check"
      ]_vars

\* C2 witness: a refresh login is in flight for a check made at exactly
\* T + 3600.
C2_Witness ==
    /\ lastLoginAt >= 0
    /\ now = lastLoginAt + 3600
    /\ pc["t1"] = "login_wait"
    /\ callLogins["t1"] = 1

\* C3: a login response with a success status and no session token (no
\* cookie, or an empty one) makes the login fail: token, expiry and
\* transport keep their values, the execute call ends with the exception
\* and sends no operation, and the session is left one that an expiry check
\* answers with a login; and every check of such a session sends a login
\* request, not an operation.
C3_TokenlessLoginInstallsNothing ==
    [][\A t \in Tasks :
          /\ \A c \in {NoCookie, ""} :
                LoginResp(t, "ok", c) =>
                    /\ UNCHANGED <<session_cookie, session_expires_at,
                                   transport>>
                    /\ pc'[t] = "done"
                    /\ error'[t] # NoError
                    /\ ret'[t] = NoResult
                    /\ req'[t] = NoRequest
                    /\ gql_client'[t] = NoTransport
                    /\ (transport' = NoTransport \/ now' >= session_expires_at')
          /\ (/\ pc[t] = "check"
              /\ pc'[t] # "check"
              /\ (transport = NoTransport \/ now >= session_expires_at)) =>
                    /\ pc'[t] = "login_wait"
                    /\ req'[t] = NoRequest
      ]_vars

\* C3 witness: an execute call ended on a token-less login response, and
\* no session is installed.
C3_Witness ==
    /\ pc["t1"] = "done"
    /\ error["t1"].msg = "Login failed: 'sessionid' cookie not found in response."
    /\ session_cookie = NoCookie
    /\ session_expires_at = 0
    /\ transport = NoTransport
    /\ req["t1"] = NoRequest

\* C4: the watcher returns at the first poll whose state is exactly one of
\* failed, canceled, skipped, completed, with that poll's whole response as
\* its value and no exception; after a poll with any other state (also
\* "Completed" or "cancelled") it has not returned.
C4_ReturnsAtFirstTerminalPoll ==
    \A t \in Tasks :
        "stateMachine" \in DOMAIN result[t] =>
            IF result[t].stateMachine.getCmdSummary.state
                  \in {"failed", "canceled", "skipped", "completed"}
            THEN /\ pc[t] = "done"
                 /\ error[t] = NoError
                 /\ ret[t] = result[t]
            ELSE /\ ret[t] = NoResult
                 /\ pc[t] = "done" => error[t] # NoError

\* C4 witness: a watch returned a "failed" response as its value, after a
\* first poll that reported another state.
C4_Witness ==
    /\ pc["t1"] = "done"
    /\ error["t1"] = NoError
    /\ polls["t1"] = 2
    /\ "stateMachine" \in DOMAIN ret["t1"]
    /\ ret["t1"].stateMachine.getCmdSummary.state = "failed"

\* C5: while the counters are exact, a watch that has made k polls has
\* emitted k - 1 notifications while poll k is under way and when it
\* returns or raises, and k once poll k was found non-terminal: n
\* non-terminal polls and a terminal one give n notifications, n + 1 polls
\* and the response of poll n + 1 as the value.
C5_OneNotificationPerOngoingPoll ==
    \A t \in Tasks :
        (phase[t] = "poll" /\ polls[t] <= MaxCount) =>
            /\ polls[t] >= 1
            /\ pc[t] \in {"check", "login_wait", "login_exit", "op_wait"} =>
                  notes[t] = polls[t] - 1
            /\ pc[t] \in {"notify", "sleep"} => notes[t] = polls[t]
            /\ pc[t] = "done" =>
                  /\ notes[t] = polls[t] - 1
                  /\ error[t] = NoError => ret[t] = result[t]

\* C5 witness: running, running, completed: two notifications, and the
\* return on the third poll with the "completed" response.
C5_Witness ==
    /\ pc["t1"] = "done"
    /\ error["t1"] = NoError
    /\ polls["t1"] = 3
    /\ notes["t1"] = 2
    /\ "stateMachine" \in DOMAIN ret["t1"]
    /\ ret["t1"].stateMachine.getCmdSummary.state = "completed"

\* C6: a watch ends only by returning a terminal response or by the
\* exception of a poll (a login or operation failure of execute); and
\* whenever a poll was found non-terminal the loop comes back to the next
\* poll, however many polls it has made: with no terminal state and no
\* failing poll it polls for ever.
C6_WatchEndsOnlyOnTerminalOrError ==
    /\ [](\A t \in Tasks :
            (phase[t] = "poll" /\ pc[t] = "done") =>
                \/ /\ error[t] = NoError
                   /\ ret[t] = result[t]
                   /\ result[t].stateMachine.getCmdSummary.state
                         \in {"failed", "canceled", "skipped", "completed"}
                \/ error[t].type \in {"ConnectionError", "HTTPStatusError",
                                      "TransportQueryError", "TransportError"})
    /\ [][\A t \in Tasks :
            (phase[t] = "poll" /\ pc[t] \in {"notify", "sleep"}) =>
                /\ phase'[t] = "poll"
                /\ pc'[t] \in {pc[t], IF pc[t] = "notify" THEN "sleep"
                                                          ELSE "check"}]_vars
    /\ \A t \in Tasks :
          /\ (phase[t] = "poll" /\ pc[t] \in {"notify", "sleep"})
                ~> (phase[t] = "poll" /\ pc[t] = "check")
          /\ (phase[t] = "poll" /\ pc[t] = "check")
                ~> (phase[t] = "poll" /\ pc[t] \in {"notify", "done"})

\* C6 witness: a watch that has made more than MaxCount polls, none of them
\* terminal or failing, is about to poll again.
C6_Witness ==
    /\ phase["t1"] = "poll"
    /\ pc["t1"] = "check"
    /\ polls["t1"] > MaxCount
    /\ notes["t1"] > MaxCount
    /\ error["t1"] = NoError

\* C7 (as claimed): a mutating tool whose mutation returned a job id, and
\* whose polls did not raise, ends by returning the terminal status response
\* of that job.
C7_JobToolsReturnTerminalStatus ==
    \A t \in Tasks :
        (/\ pc[t] = "done"
         /\ tool[t] \in MutatingTools
         /\ jobid[t] # 0
         /\ error[t].type \notin {"ConnectionError", "HTTPStatusError",
                                  "TransportQueryError", "TransportError"}) =>
            /\ error[t] = NoError
            /\ "stateMachine" \in DOMAIN ret[t]
            /\ ret[t].stateMachine.getCmdSummary.name = JobName(jobid[t])
            /\ ret[t].stateMachine.getCmdSummary.state
                  \in {"failed", "canceled", "skipped", "completed"}

\* C8: while destroy_tenant runs without confirm=True it sends no remote
\* request (no login, no mutation, no poll), its steps leave the session as
\* it was, and it ends by returning the mapping with status "cancelled".
C8_UnconfirmedDestroyIsLocal ==
    [][\A t \in Tasks :
          (tool'[t] = "destroy_tenant" /\ ~confirm'[t]) =>
              /\ ~remoteUsed'[t]
              /\ req'[t] = NoRequest
              /\ polls'[t] = 0
              /\ pc'[t] \in {"pre_info", "cancel_info", "done"}
              /\ pc'[t] # pc[t] => UNCHANGED <<sessionVars, histVars>>
              /\ pc'[t] = "done" =>
                    /\ error'[t] = NoError
                    /\ DOMAIN ret'[t] = {"status", "message"}
                    /\ ret'[t].status = "cancelled"
      ]_vars

\* C8 witness: an unconfirmed destroy_tenant has returned "cancelled" with
\* a session installed that it did not touch.
C8_Witness ==
    /\ tool["t1"] = "destroy_tenant"
    /\ ~confirm["t1"]
    /\ pc["t1"] = "done"
    /\ "status" \in DOMAIN ret["t1"]
    /\ ret["t1"].status = "cancelled"
    /\ ~remoteUsed["t1"]
    /\ transport # NoTransport

\* C9: list_tenants returns the tenants of the tenant listing, each once and
\* in the listing's order, each with a quota of the six fields; a field is
\* non-zero only if some kbyte or inode sub-record of the quota listing has
\* the tenant's idOffset as its id, and without such a sub-record all six
\* fields are 0.
C9_EveryTenantOnceWithQuota ==
    \A t \in Tasks :
        (pc[t] = "done" /\ tool[t] = "list_tenants" /\ error[t] = NoError) =>
            LET out == ret[t].tenant.list
                Matched(i) ==
                    \E e \in DOMAIN srvQuota :
                        \/ \E n \in DOMAIN srvQuota[e].quotas.projids.kbytes :
                              srvQuota[e].quotas.projids.kbytes[n].id = i
                        \/ \E n \in DOMAIN srvQuota[e].quotas.projids.inodes :
                              srvQuota[e].quotas.projids.inodes[n].id = i
            IN  /\ DOMAIN out = DOMAIN srvTenants
                /\ \A n \in DOMAIN out :
                      /\ DOMAIN out[n] = {"name", "idOffset", "quota"}
                      /\ out[n].name = srvTenants[n].name
                      /\ out[n].idOffset = srvTenants[n].idOffset
                      /\ DOMAIN out[n].quota =
                            {"inodeHard", "inodeSoft", "inodeUsed",
                             "kbyteHard", "kbyteSoft", "kbyteUsed"}
                      /\ (\E f \in DOMAIN out[n].quota : out[n].quota[f] # 0)
                            => Matched(out[n].idOffset)
                      /\ ~Matched(out[n].idOffset) =>
                            \A f \in DOMAIN out[n].quota : out[n].quota[f] = 0

\* C9 witness: two tenants returned, the first with limits and the second,
\* which no sub-record names, with the all-zero quota.
C9_Witness ==
    /\ pc["t1"] = "done"
    /\ tool["t1"] = "list_tenants"
    /\ Len(srvTenants) = 2
    /\ srvQuota # <<>>
    /\ ret["t1"].tenant.list[1].quota # Quota
    /\ ret["t1"].tenant.list[2].quota = Quota

\* C10: the kbyte fields of a tenant are hard / soft / granted of the last
\* kbyte sub-record with its idOffset (0 when there is none) whatever the
\* inode sub-records are, and the inode fields those of the last such inode
\* sub-record (0 when there is none) whatever the kbyte sub-records are.
C10_KbyteAndInodeIndependent ==
    \A t \in Tasks :
        (pc[t] = "done" /\ tool[t] = "list_tenants" /\ error[t] = NoError) =>
            LET out == ret[t].tenant.list
                \* <<entry, position>> of the sub-records with id i
                KHits(i) ==
                    {p \in (DOMAIN srvQuota) \X (1..(MaxSub + 1)) :
                        /\ p[2] \in DOMAIN srvQuota[p[1]].quotas.projids.kbytes
                        /\ srvQuota[p[1]].quotas.projids.kbytes[p[2]].id = i}
                IHits(i) ==
                    {p \in (DOMAIN srvQuota) \X (1..(MaxSub + 1)) :
                        /\ p[2] \in DOMAIN srvQuota[p[1]].quotas.projids.inodes
                        /\ srvQuota[p[1]].quotas.projids.inodes[p[2]].id = i}
                Last(H) ==
                    CHOOSE p \in H : \A q \in H :
                        q[1] < p[1] \/ (q[1] = p[1] /\ q[2] <= p[2])
                KLast(i) ==
                    srvQuota[Last(KHits(i))[1]].quotas.projids
                        .kbytes[Last(KHits(i))[2]].quota
                ILast(i) ==
                    srvQuota[Last(IHits(i))[1]].quotas.projids
                        .inodes[Last(IHits(i))[2]].quota
            IN  \A n \in DOMAIN out :
                    LET i == out[n].idOffset
                        q == out[n].quota
                    IN  /\ IF KHits(i) = {}
                           THEN q.kbyteHard = 0 /\ q.kbyteSoft = 0
                                /\ q.kbyteUsed = 0
                           ELSE /\ q.kbyteHard = KLast(i).hard
                                /\ q.kbyteSoft = KLast(i).soft
                                /\ q.kbyteUsed = KLast(i).granted
                        /\ IF IHits(i) = {}
                           THEN q.inodeHard = 0 /\ q.inodeSoft = 0
                                /\ q.inodeUsed = 0
                           ELSE /\ q.inodeHard = ILast(i).hard
                                /\ q.inodeSoft = ILast(i).soft
                                /\ q.inodeUsed = ILast(i).granted

\* C10 witness: the scenario of the specification: tenants 1 and 2, one
\* kbyte sub-record 1000/900/500 for id 1, no inode sub-record.
C10_Witness ==
    /\ pc["t1"] = "done"
    /\ tool["t1"] = "list_tenants"
    /\ srvTenants = ScenarioTenants
    /\ srvQuota = ScenarioQuota
    /\ ret["t1"].tenant.list[1].quota =
          [inodeHard |-> 0, inodeSoft |-> 0, inodeUsed |-> 0,
           kbyteHard |-> 1000, kbyteSoft |-> 900, kbyteUsed |-> 500]
    /\ ret["t1"].tenant.list[2].quota =
          [inodeHard |-> 0, inodeSoft |-> 0, inodeUsed |-> 0,
           kbyteHard |-> 0, kbyteSoft |-> 0, kbyteUsed |-> 0]

\* C11 (as claimed): a login that fails on a non-success status and one that
\* fails on a token-less success response end with the same kind of
\* exception, and a login that fails to connect ends with a kind different
\* from that of either.  The failures are told apart by their messages.
C11_LoginErrorKinds ==
    LET Connect(e) ==
            e.msg = "Could not connect to the authentication endpoint"
        Status(e) == e.msg = "raise_for_status"
        NoToken(e) ==
            e.msg = "Login failed: 'sessionid' cookie not found in response."
    IN  \A t, u \in Tasks :
            /\ (Status(error[t]) /\ NoToken(error[u])) =>
                  error[t].type = error[u].type
            /\ ((Status(error[t]) \/ NoToken(error[t])) /\ Connect(error[u]))
                  => error[t].type # error[u].type

C13_RacingLoginsLastWins ==
    [][\A t \in Tasks :
          /\ \A c \in Tokens :
                LoginResp(t, "ok", c) =>
                    /\ session_cookie' = c
                    /\ session_expires_at' = now + 3600
                    /\ transport' = [url |-> "/graphql", cookie |-> c,
                                     timeout |-> 30]
                    /\ lastLoginAt' = now
          /\ (/\ pc[t] = "check"
              /\ pc'[t] # "check"
              /\ \E u \in Tasks \ {t} : pc[u] = "login_wait"
              /\ (transport = NoTransport \/ now >= session_expires_at)) =>
                    /\ pc'[t] = "login_wait"
                    /\ callLogins'[t] = 1
                    /\ \E u \in Tasks \ {t} : pc'[u] = "login_wait"
      ]_vars

\* C13 witness: the clock has not advanced, so both calls made their check
\* before any login had completed; both logged in; the first sent its
\* operation on the transport of its own session (tokA), and the session
\* installed is that of the second login (tokB).
C13_Witness ==
    /\ ticks = 0
    /\ callLogins["t1"] = 1
    /\ callLogins["t2"] = 1
    /\ pc["t1"] = "op_wait"
    /\ gql_client["t1"].cookie = "tokA"
    /\ pc["t2"] \in {"login_exit", "op_wait"}
    /\ session_cookie = "tokB"
    /\ transport.cookie = "tokB"
    /\ session_expires_at = now + 3600

\* C14: within one execute call a login request is sent only by the expiry
\* check and the operation request only by the check or after the call's
\* login; an exception of the operation ends the call with that exception
\* (no login, no resend, the session left alone); and a failed login ends
\* the call with no operation sent.
C14_OneLoginOneSendPerCall ==
    [][\A t \in Tasks :
          /\ (pc'[t] = "login_wait" /\ pc[t] # "login_wait") =>
                /\ pc[t] = "check"
                /\ callLogins'[t] = 1
          /\ (pc'[t] = "op_wait" /\ pc[t] # "op_wait") =>
                /\ pc[t] \in {"check", "login_exit"}
                /\ req[t] = NoRequest
                /\ callLogins'[t] = IF pc[t] = "check" THEN 0 ELSE 1
          /\ (pc[t] = "op_wait" /\ pc'[t] # "op_wait") =>
                /\ pc'[t] \notin {"login_wait", "login_exit"}
                /\ req'[t] = NoRequest
                /\ UNCHANGED <<sessionVars, histVars>>
          /\ \A e \in OpErrors :
                OpFail(t, e) =>
                    /\ pc'[t] = "done"
                    /\ error'[t].type = e
                    /\ ret'[t] = NoResult
          /\ (pc[t] = "login_wait" /\ error'[t] # NoError) =>
                /\ pc'[t] = "done"
                /\ req'[t] = NoRequest
                /\ gql_client'[t] = NoTransport
                /\ ret'[t] = NoResult
      ]_vars

\* C14 witness: an execute call that logged in and sent its operation
\* ended on the operation's exception, with the session of its login still
\* installed.
C14_Witness ==
    /\ pc["t1"] = "done"
    /\ error["t1"].type = "TransportQueryError"
    /\ callLogins["t1"] = 1
    /\ req["t1"] = NoRequest
    /\ gql_client["t1"] = transport
    /\ lastLoginAt = now

\* C15: the session is wholly absent (no cookie, no transport, expiry 0) or
\* wholly present: a token that is neither None nor empty, a transport
\* whose cookie is that token, and the expiry 3600 after the completion of
\* the login that installed it, so in the future at that moment.
C15_SessionAbsentOrWhole ==
    \/ /\ session_cookie = NoCookie
       /\ transport = NoTransport
       /\ session_expires_at = 0
       /\ lastLoginAt = -1
    \/ /\ session_cookie \notin {NoCookie, ""}
       /\ transport # NoTransport
       /\ transport.cookie = session_cookie
       /\ lastLoginAt >= 1
       /\ session_expires_at = lastLoginAt + 3600
       /\ session_expires_at > lastLoginAt

\* C15 witness: a second login has replaced the session of a first one
\* while a request of the other task is in flight on the first transport.
C15_Witness ==
    /\ session_cookie = "tokB"
    /\ transport.cookie = "tokB"
    /\ pc["t1"] = "login_exit"
    /\ pc["t2"] = "op_wait"
    /\ gql_client["t2"].cookie = "tokA"
    /\ now >= 3600

\* C16: an exception of a watcher's poll (a failed login or a failed
\* operation of its execute call) ends the watch and the tool with that
\* exception at once: the poll and notification counts stay as they were,
\* nothing is returned, no request is left in flight, and the invocation
\* takes no further step.
C16_WatcherPropagatesPollError ==
    [][\A t \in Tasks :
          /\ (/\ phase[t] = "poll"
              /\ pc[t] \in {"login_wait", "op_wait"}
              /\ error'[t] # NoError) =>
                /\ pc'[t] = "done"
                /\ error'[t].type \in {"ConnectionError", "HTTPStatusError",
                                       "TransportQueryError", "TransportError"}
                /\ polls'[t] = polls[t]
                /\ notes'[t] = notes[t]
                /\ req'[t] = NoRequest
                /\ ret'[t] = NoResult
                /\ phase'[t] = "poll"
          /\ \A e \in OpErrors :
                (phase[t] = "poll" /\ OpFail(t, e)) => error'[t].type = e
          /\ \A o \in {"connect", "http"} :
                (phase[t] = "poll" /\ LoginResp(t, o, NoCookie)) =>
                    error'[t] # NoError
          /\ (phase[t] = "poll" /\ pc[t] = "done" /\ error[t] # NoError) =>
                \/ /\ pc'[t] = "done"
                   /\ polls'[t] = polls[t]
                   /\ notes'[t] = notes[t]
                   /\ error'[t] = error[t]
                   /\ req'[t] = NoRequest
                \/ /\ phase'[t] # "poll"
                   /\ polls'[t] = 0
                   /\ error'[t] = NoError
      ]_vars

\* C16 witness: the third poll of a watch raised an operation error after
\* two notifications: the tool ended with it, nothing returned.
C16_Witness ==
    /\ phase["t1"] = "poll"
    /\ pc["t1"] = "done"
    /\ error["t1"].type = "TransportError"
    /\ polls["t1"] = 3
    /\ notes["t1"] = 2
    /\ ret["t1"] = NoResult

\* C17: a request in flight was sent on a transport that carries a token;
\* and whenever an operation request is sent it is sent on the installed
\* transport, which carries the token of the installed session, set by a
\* login that completed with a token, and the clock at the call's expiry
\* check was before that session's expiry; the session changes only by
\* such a login.
C17_OperationsSentWithValidToken ==
    /\ [](\A t \in Tasks :
            req[t] # NoRequest =>
                /\ gql_client[t] # NoTransport
                /\ gql_client[t].cookie \in Tokens)
    /\ [][\A t \in Tasks :
            /\ (req'[t] # NoRequest /\ req[t] = NoRequest) =>
                  /\ gql_client'[t] = transport
                  /\ transport.cookie = session_cookie
                  /\ session_cookie \in Tokens
                  /\ lastLoginAt >= 1
                  /\ session_expires_at = lastLoginAt + 3600
                  /\ checkedAt'[t] >= 1
                  /\ checkedAt'[t] < session_expires_at
                  /\ UNCHANGED sessionVars
       ]_vars
    /\ [][sessionVars' # sessionVars =>
            \E t \in Tasks : \E c \in Tokens : LoginResp(t, "ok", c)]_vars

\* C17 witness: one second before the expiry of the session a call passed
\* its check without a login and its request is in flight, while the other
\* task is watching a command.
C17_Witness ==
    /\ pc["t2"] = "op_wait"
    /\ callLogins["t2"] = 0
    /\ checkedAt["t2"] = lastLoginAt + 3599
    /\ gql_client["t2"].cookie = session_cookie
    /\ phase["t1"] = "poll"
    /\ pc["t1"] = "sleep"

\* C18: a login that fails (connect error, rejected status, success
\* response without a token) leaves cookie, expiry and transport as they
\* were, whether no session or an older, expired one is installed; so when
\* a tool has ended on a failed login the session still is one that an
\* expiry check answers with a login, and the next check sends one.
C18_FailedLoginLeavesSession ==
    /\ [](\A t \in Tasks :
            (/\ pc[t] = "done"
             /\ error[t].type \in {"ConnectionError", "HTTPStatusError"}) =>
                (transport = NoTransport \/ now >= session_expires_at))
    /\ [][\A t \in Tasks :
            /\ (/\ \/ \E o \in {"connect", "http"} : LoginResp(t, o, NoCookie)
                   \/ \E c \in {NoCookie, ""} : LoginResp(t, "ok", c)) =>
                  /\ session_cookie' = session_cookie
                  /\ session_expires_at' = session_expires_at
                  /\ transport' = transport
                  /\ error'[t].type \in {"ConnectionError", "HTTPStatusError"}
                  /\ pc'[t] = "done"
            /\ (/\ pc[t] = "check"
                /\ pc'[t] # "check"
                /\ lastLoginAt >= 1
                /\ now >= session_expires_at) =>
                  /\ pc'[t] = "login_wait"
                  /\ callLogins'[t] = 1
                  /\ req'[t] = NoRequest
       ]_vars

\* C18 witness: the refresh of an expired session was rejected by the
\* server: the tool ended with the exception and the expired session, token
\* and transport included, is still installed.
C18_Witness ==
    /\ pc["t1"] = "done"
    /\ error["t1"].type = "HTTPStatusError"
    /\ lastLoginAt >= 1
    /\ session_cookie = "tokA"
    /\ transport.cookie = "tokA"
    /\ session_expires_at = lastLoginAt + 3600
    /\ now > session_expires_at

\* C19: a mutating tool sends its mutation when no request of the
\* invocation has been answered yet (no result, no id, no poll), once; a
\* poll has been made only after the mutation's response, every status
\* request carries the id read from that response, which stays the same
\* for the whole watch; and an exception of the mutation's execute call
\* ends the tool with no poll made.
C19_MutationOnceThenPollsWithItsId ==
    /\ [](\A t \in Tasks :
            tool[t] \in MutatingTools =>
                /\ req[t].doc = "CHECK_STATEMACHINE" =>
                      /\ phase[t] = "poll"
                      /\ req[t].id = jobid[t]
                /\ (polls[t] >= 1 \/ phase[t] = "poll") =>
                      /\ jobid[t] \in {101, 102}
                      /\ result[t] # NoResult
                      /\ polls[t] >= 1
                /\ (req[t] # NoRequest /\ phase[t] # "poll") =>
                      /\ req[t].doc = ToolDocument(tool[t])
                      /\ phase[t] = "mutation"
                      /\ polls[t] = 0
                      /\ jobid[t] = 0
                      /\ result[t] = NoResult)
    /\ [][\A t \in Tasks :
            (tool[t] \in MutatingTools /\ tool'[t] = tool[t]) =>
                /\ (req'[t] # req[t] /\ req'[t].doc = ToolDocument(tool[t]))
                      => /\ req[t] = NoRequest
                         /\ result[t] = NoResult
                         /\ jobid[t] = 0
                         /\ polls[t] = 0
                /\ \A jid \in JobIds, st \in JobStates :
                      (phase[t] = "mutation" /\ OpOk(t, jid, st)) =>
                          /\ jobid'[t] = jid
                          /\ polls'[t] = 0
                /\ (jobid[t] # 0 /\ pc[t] # "done") => jobid'[t] = jobid[t]
                /\ phase[t] = "poll" => (phase'[t] = "poll" \/ pc[t] = "done")
                /\ (phase[t] = "mutation" /\ error'[t] # NoError) =>
                      /\ pc'[t] = "done"
                      /\ polls'[t] = 0
                /\ (pc[t] = "done" /\ pc'[t] = "done") =>
                      polls'[t] = polls[t]
       ]_vars

\* C19 witness: create_tenant got the id 102 from its mutation and its
\* second status request, for 102, is in flight.
C19_Witness ==
    /\ tool["t1"] = "create_tenant"
    /\ jobid["t1"] = 102
    /\ polls["t1"] = 2
    /\ pc["t1"] = "op_wait"
    /\ req["t1"] = [doc |-> "CHECK_STATEMACHINE", id |-> 102]

\* C20: while a watcher is suspended (in its sleep, in the delivery of its
\* notification, or in the login or status request of a poll) every other
\* task can take its next step: start a tool, make its expiry check, have
\* its login or operation answered, and a step of another task changes
\* nothing of the watch; the watcher's notification and sleep leave the
\* session alone; and a poll that finds the installed session expired sends
\* one login request, whose success installs a new session and is followed
\* by the status request for the same id, the watch going on.
C20_WatcherWaitIsSuspension ==
    /\ [](\A t \in Tasks : \A u \in Tasks \ {t} :
            (/\ phase[t] = "poll"
             /\ pc[t] \in {"login_wait", "login_exit", "op_wait", "notify",
                           "sleep"}) =>
                /\ pc[u] \in {"idle", "done"} =>
                      /\ ENABLED Start(u, "list_users", FALSE)
                      /\ ENABLED Start(u, "add_nids_to_tenant", FALSE)
                /\ pc[u] = "pre_info" => ENABLED PreInfoDone(u)
                /\ pc[u] = "check" => ENABLED ExecCheck(u)
                /\ pc[u] = "login_wait" => ENABLED LoginResp(u, "ok", "tokB")
                /\ pc[u] = "login_exit" => ENABLED ExecSend(u)
                /\ pc[u] = "op_wait" => ENABLED OpOk(u, 101, "completed")
                /\ pc[u] = "started_info" => ENABLED StartedInfoDone(u)
                /\ pc[u] = "notify" => ENABLED NotifyDone(u)
                /\ pc[u] = "sleep" => ENABLED SleepDone(u))
    /\ [][\A t \in Tasks :
            phase[t] = "poll" =>
                /\ \A u \in Tasks \ {t} :
                      pc'[u] # pc[u] =>
                          /\ pc'[t] = pc[t]
                          /\ phase'[t] = phase[t]
                          /\ polls'[t] = polls[t]
                          /\ notes'[t] = notes[t]
                          /\ jobid'[t] = jobid[t]
                          /\ req'[t] = req[t]
                          /\ error'[t] = error[t]
                /\ (pc[t] \in {"notify", "sleep"} /\ pc'[t] # pc[t]) =>
                      UNCHANGED <<sessionVars, histVars>>
                /\ (/\ pc[t] = "check"
                    /\ pc'[t] # "check"
                    /\ lastLoginAt >= 1
                    /\ now >= session_expires_at) =>
                      /\ pc'[t] = "login_wait"
                      /\ callLogins'[t] = 1
                      /\ polls'[t] = polls[t]
                /\ \A c \in Tokens :
                      LoginResp(t, "ok", c) =>
                          /\ pc'[t] = "login_exit"
                          /\ phase'[t] = "poll"
                          /\ session_cookie' = c
                          /\ session_expires_at' = now + 3600
                /\ (pc[t] = "login_exit" /\ pc'[t] # "login_exit") =>
                      /\ pc'[t] = "op_wait"
                      /\ phase'[t] = "poll"
                      /\ callLogins'[t] = 1
                      /\ req'[t] = [doc |-> "CHECK_STATEMACHINE",
                                    id |-> jobid[t]]
                      /\ polls'[t] = polls[t]
       ]_vars

\* C20 witness: both tasks are watching a command; the session expired
\* during the watch of the first, whose poll (not its first) logged in once
\* and has its status request in flight on the new session, while the
\* second watcher sleeps.
C20_Witness ==
    /\ phase["t1"] = "poll"
    /\ pc["t1"] = "op_wait"
    /\ polls["t1"] >= 2
    /\ callLogins["t1"] = 1
    /\ lastLoginAt >= 3601
    /\ gql_client["t1"] = transport
    /\ req["t1"].doc = "CHECK_STATEMACHINE"
    /\ phase["t2"] = "poll"
    /\ pc["t2"] = "sleep"

====
